---- MODULE Spec2Model ----
(***************************************************************************)
(* Verification model of the workflow orchestrator: the task graph         *)
(* (validation, Kahn topological sort, canonical hash), the run store and  *)
(* the executor (Run / Resume with retries and cancellation).              *)
(***************************************************************************)
EXTENDS Integers, Sequences, FiniteSets, TLC

\* ------------------------------------------------------------------------
\* Bounds
\* ------------------------------------------------------------------------
MaxDeps == 2        \* longest depends_on list of a graph of the sort model
MaxRetries == 1     \* largest retries value of a task of the executor model
MaxRuns == 2        \* run rows the executor model creates
MaxTimeout == 1     \* largest Executor.DefaultTaskTimeout, in clock ticks
MaxCalls == 2       \* Run / resume invocations of one behaviour

\* ------------------------------------------------------------------------
\* Strings and sequences
\* ------------------------------------------------------------------------
\* Task names of the model, listed in ascending byte order.
Names == <<"a", "b", "c">>
NameSet == {Names[i] : i \in 1..Len(Names)}
Rank(n) == CHOOSE i \in 1..Len(Names) : Names[i] = n
\* Go's string comparison x < y on the names of the model.
StrLess(x, y) == Rank(x) < Rank(y)

RECURSIVE InsertSorted(_, _)
InsertSorted(x, s) ==
    IF s = <<>> THEN <<x>>
    ELSE IF StrLess(x, Head(s)) THEN <<x>> \o s
    ELSE <<Head(s)>> \o InsertSorted(x, Tail(s))

\* sort.Strings: the ascending rearrangement of s, duplicates kept.
RECURSIVE SortStrings(_)
SortStrings(s) ==
    IF s = <<>> THEN <<>> ELSE InsertSorted(Head(s), SortStrings(Tail(s)))

Range(s) == {s[i] : i \in 1..Len(s)}
Last(s) == s[Len(s)]
\* The orders in which a Go map with key set S may be iterated.
MapOrders(S) ==
    {p \in [1..Cardinality(S) -> S] : \A i, j \in 1..Cardinality(S) : p[i] = p[j] => i = j}
Count(s, x) == Cardinality({i \in 1..Len(s) : s[i] = x})
RECURSIVE Repeat(_, _)
Repeat(x, n) == IF n <= 0 THEN <<>> ELSE <<x>> \o Repeat(x, n - 1)

\* ------------------------------------------------------------------------
\* Graph: a DAG value is [name, tasks], tasks a map from task name to
\* [cmd, deps, retries]; Task.Name is the map key (loader.go:84-91).
\* ------------------------------------------------------------------------
TaskNames(g) == DOMAIN g.tasks

\* Variant: the increment sits outside the loop over depends_on.
InDegreeOncePerTask(g, t) == IF Len(g.tasks[t].deps) > 0 THEN 1 ELSE 0
\* inDegree after the edge loop: one increment per depends_on entry.
InDegreeCounted(g, t) == Len(g.tasks[t].deps)

\* neighborList[dep] after the edge loop and sort.Strings: every task once
\* per occurrence of dep in its depends_on, ascending.
RECURSIVE Dependents(_, _, _)
Dependents(g, dep, iter) ==
    IF iter = <<>> THEN <<>>
    ELSE Repeat(Head(iter), Count(g.tasks[Head(iter)].deps, dep))
            \o Dependents(g, dep, Tail(iter))
NeighborList(g, dep, iter) == SortStrings(Dependents(g, dep, iter))

\* Variant: a neighbour is enqueued while one dependency is still pending.
BecomesReadyEarly(deg) == deg <= 1
\* if inDegree[neighbor] == 0 { queue = append(queue, neighbor) }
BecomesReady(deg) == deg = 0

\* The inner loop over neighborList[n]: decrement, enqueue at zero.
RECURSIVE Relax(_, _, _)
Relax(nb, inDeg, queue) ==
    IF nb = <<>> THEN [inDeg |-> inDeg, queue |-> queue]
    ELSE LET x == Head(nb)
             deg == inDeg[x] - 1
             inDeg2 == [inDeg EXCEPT ![x] = deg]
         IN Relax(Tail(nb), inDeg2,
                  IF BecomesReady(deg) THEN Append(queue, x) ELSE queue)

\* for len(queue) > 0 { n := queue[0]; queue = queue[1:]; ... }
RECURSIVE Kahn(_, _, _, _, _)
Kahn(g, iter, queue, inDeg, result) ==
    IF queue = <<>> THEN result
    ELSE LET n == Head(queue)
             r == Relax(NeighborList(g, n, iter), inDeg, Tail(queue))
         IN Kahn(g, iter, r.queue, r.inDeg, Append(result, n))

\* The initial queue: the tasks of in-degree 0 in map iteration order.
InitialQueue(g, iter) == SelectSeq(iter, LAMBDA t : InDegreeCounted(g, t) = 0)

\* DAG.TopologicalSort; iter is the iteration order of the task map.
TopologicalSort(g, iter) ==
    LET inDeg == [t \in TaskNames(g) |-> InDegreeCounted(g, t)]
        result == Kahn(g, iter, InitialQueue(g, iter), inDeg, <<>>)
    IN IF Len(result) # Cardinality(TaskNames(g))
       THEN [err |-> "cycle detected in DAG", order |-> <<>>]
       ELSE [err |-> "", order |-> result]

\* taskNamePattern.MatchString: every name of the model is made of
\* letters only, the empty string does not match.
MatchString(name) == name \in NameSet

\* The per-task checks of Validate, in map iteration order.
RECURSIVE ValidateTasks(_, _)
ValidateTasks(g, iter) ==
    IF iter = <<>> THEN ""
    ELSE LET name == Head(iter)
             t == g.tasks[name]
         IN IF ~MatchString(name) THEN "invalid task name"
            ELSE IF t.cmd = "" THEN "task has no command defined"
            ELSE IF \E i \in 1..Len(t.deps) : t.deps[i] \notin TaskNames(g)
                 THEN "task depends on missing task"
            ELSE ValidateTasks(g, Tail(iter))

\* Variant: the check of the workflow name is missing.
ValidateNameUnchecked(g, iter) ==
    IF TaskNames(g) = {} THEN "no tasks defined"
    ELSE LET e == ValidateTasks(g, iter)
         IN IF e # "" THEN e ELSE TopologicalSort(g, iter).err
\* DAG.Validate; "" is the nil error.
Validate(g, iter) ==
    IF g.name = "" THEN "workflow name is required"
    ELSE IF TaskNames(g) = {} THEN "no tasks defined"
    ELSE LET e == ValidateTasks(g, iter)
         IN IF e # "" THEN e ELSE TopologicalSort(g, iter).err

\* sort.Slice(tasks, by Name): the names of the snapshots are distinct (they
\* are the keys of the task map), so the result does not depend on the
\* algorithm.
SortSlice(snaps) ==
    LET ns == SortStrings([i \in 1..Len(snaps) |-> snaps[i].name])
    IN [i \in 1..Len(snaps) |-> CHOOSE x \in Range(snaps) : x.name = ns[i]]

\* Variant: the copy of depends_on is not sorted.
ComputeHashDepsUnsorted(g, iter) ==
    [name |-> g.name,
     tasks |-> SortSlice([i \in 1..Len(iter) |->
                  [name |-> iter[i],
                   cmd |-> g.tasks[iter[i]].cmd,
                   depends_on |-> g.tasks[iter[i]].deps,
                   retries |-> g.tasks[iter[i]].retries]])]
\* DAG.ComputeHash: the snapshot that is marshalled and digested; one task
\* snapshot per task in map iteration order iter, each with a sorted copy
\* of depends_on, then sorted by name. json.Marshal and SHA-256 are taken
\* as injective on the snapshots of the model.
ComputeHash(g, iter) ==
    [name |-> g.name,
     tasks |-> SortSlice([i \in 1..Len(iter) |->
                  [name |-> iter[i],
                   cmd |-> g.tasks[iter[i]].cmd,
                   depends_on |-> SortStrings(g.tasks[iter[i]].deps),
                   retries |-> g.tasks[iter[i]].retries]])]

\* ------------------------------------------------------------------------
\* State
\* ------------------------------------------------------------------------
VARIABLES
    sortG,      \* the graph handed to Validate / TopologicalSort
    sortValid,  \* "unchecked", or the error of Validate ("" = accepted)
    sortRes1,   \* result of a first TopologicalSort invocation
    sortRes2,   \* result of a second invocation on the same graph
    hashG,      \* a second graph, built apart from sortG
    hashRes,    \* the hashes computed so far: of sortG, of sortG again, of hashG
    file,       \* the workflow document <workflows_dir>/<name>.toml, decoded
    runs,       \* table workflow_runs; the id of a row is its index
    taskRuns,   \* table task_runs in insertion order; id = index
    logs,       \* log files: set of [path, by], by = the call that wrote it
    pc,         \* position of the executor: idle, loop, attempt, child, done
    mode,       \* "run" or "resume": which entry point is executing
    d,          \* the graph the current call executes
    order,      \* the result of TopologicalSort in the current call
    idx,        \* index into order of the task being driven
    attempt,    \* the attempt loop variable
    wr,         \* the in-memory WorkflowRun of the call
    tr,         \* the in-memory TaskRun of the task being driven
    ret,        \* what the last call returned
    cancelled,  \* ctx.Done() of the current call is closed
    calls,      \* number of calls made so far
    execLog,    \* the attempts completed in the current call, in order
    created,    \* tasks whose row the current call inserted
    skips,      \* tasks the current call skipped as already successful
    killed,     \* a child of the current call was killed by the context
    group,      \* living processes of the groups the current call created
    spawned,    \* per run id, the child processes started for it so far
    storeDown,  \* the database rejects every statement
    timeout,    \* Executor.DefaultTaskTimeout, in clock ticks (0 = none)
    elapsed,    \* clock ticks since the child of the current attempt started
    argv,       \* the command line of the current call (<<>> for a library call)
    out,        \* what validate or run --dry-run reported last
    tbl,        \* table workflow_runs with every column, in insertion order
    clock,      \* time.Now(), in ticks
    op          \* the last call on the store: name, arguments, row written, result

hashVars == <<hashG, hashRes>>
sortVars == <<sortG, sortValid, sortRes1, sortRes2, hashVars>>
storeVars == <<runs, taskRuns, logs>>
callVars == <<pc, mode, d, order, idx, attempt, wr, tr, ret, cancelled>>
histVars == <<calls, execLog, created, skips, killed, group>>
envVars == <<spawned, storeDown>>
timeVars == <<timeout, elapsed>>
cliVars == <<argv, out>>
dbVars == <<tbl, clock, op>>
execVars == <<file, storeVars, callVars, histVars, envVars, timeVars, cliVars>>
vars == <<sortVars, execVars, dbVars>>

Unsorted == [err |-> "unsorted", order |-> <<>>]

\* ------------------------------------------------------------------------
\* The graph operations as a state machine: a graph is drawn, validated
\* and sorted twice, each call with its own map iteration order.
\* ------------------------------------------------------------------------
DepSeqs == UNION {[1..n -> NameSet] : n \in 0..MaxDeps}
SortTasks == [cmd : {"sh"}, deps : DepSeqs, retries : {0}]
SortGraphs ==
    {[name |-> "wf", tasks |-> f] : f \in UNION {[S -> SortTasks] : S \in SUBSET NameSet}}

NoGraph == [name |-> "", tasks |-> <<>>]
NullInt64 == [valid |-> FALSE, int64 |-> 0]
NilTaskRun ==
    [id |-> 0, run |-> 0, name |-> "", status |-> "", attempts |-> 0,
     exitCode |-> NullInt64, logPath |-> <<>>, lastError |-> "", ended |-> FALSE]
NilRun == [id |-> 0, workflow |-> "", status |-> "", ended |-> FALSE]
NoReturn == [kind |-> "none", task |-> "", workflow |-> ""]

\* No hash computed.
Unhashed == [name |-> "unhashed", tasks |-> <<>>]
NoHashes == [first |-> Unhashed, again |-> Unhashed, other |-> Unhashed]
HashIdle == hashG = NoGraph /\ hashRes = NoHashes

\* No call on the store yet.
NoOp == [name |-> "none", args |-> <<>>, row |-> <<>>, res |-> <<>>]

\* Nothing reported yet.
NoOutput == [valid |-> FALSE, error |-> "", plan |-> <<>>]

\* The executor at rest, before any call.
ExecIdle ==
    /\ runs = <<>>
    /\ taskRuns = <<>>
    /\ logs = {}
    /\ pc = "idle"
    /\ mode = "none"
    /\ d = NoGraph
    /\ order = <<>>
    /\ idx = 0
    /\ attempt = 0
    /\ wr = NilRun
    /\ tr = NilTaskRun
    /\ ret = NoReturn
    /\ cancelled = FALSE
    /\ calls = 0
    /\ execLog = <<>>
    /\ created = {}
    /\ skips = {}
    /\ killed = FALSE
    /\ group = {}
    /\ spawned = <<>>
    /\ storeDown = FALSE
    /\ elapsed = 0
    /\ argv = <<>>
    /\ out = NoOutput
    /\ tbl = <<>>
    /\ clock = 0
    /\ op = NoOp

\* NewExecutor: DefaultTaskTimeout is 0.
NewExecutor == timeout = 0

InitSort ==
    /\ sortG \in SortGraphs
    /\ sortValid = "unchecked"
    /\ sortRes1 = Unsorted
    /\ sortRes2 = Unsorted
    /\ HashIdle
    /\ file = NoGraph
    /\ ExecIdle
    /\ NewExecutor

SortValidate ==
    /\ sortValid = "unchecked"
    /\ \E iter \in MapOrders(TaskNames(sortG)) :
         sortValid' = Validate(sortG, iter)
    /\ UNCHANGED <<sortG, sortRes1, sortRes2, hashVars, execVars, dbVars>>

SortFirst ==
    /\ sortRes1 = Unsorted
    /\ \E iter \in MapOrders(TaskNames(sortG)) :
         sortRes1' = TopologicalSort(sortG, iter)
    /\ UNCHANGED <<sortG, sortValid, sortRes2, hashVars, execVars, dbVars>>

SortSecond ==
    /\ sortRes1 # Unsorted
    /\ sortRes2 = Unsorted
    /\ \E iter \in MapOrders(TaskNames(sortG)) :
         sortRes2' = TopologicalSort(sortG, iter)
    /\ UNCHANGED <<sortG, sortValid, sortRes1, hashVars, execVars, dbVars>>

NextSort == SortValidate \/ SortFirst \/ SortSecond

SpecSort == InitSort /\ [][NextSort]_vars

\* ComputeHash as a state machine: two graphs with the same workflow name
\* and the same tasks, whose depends_on lists hold the same names (in any
\* order, any number of times each), are hashed, the first one twice; each
\* call has its own map iteration order.
HashNames == {"a", "b"}
HashGraphs ==
    {[name |-> "wf", tasks |-> f] :
        f \in UNION {[S -> SortTasks] : S \in SUBSET HashNames}}
SameContent(g, h) ==
    /\ g.name = h.name
    /\ TaskNames(g) = TaskNames(h)
    /\ \A t \in TaskNames(g) :
         /\ g.tasks[t].cmd = h.tasks[t].cmd
         /\ g.tasks[t].retries = h.tasks[t].retries
         /\ Range(g.tasks[t].deps) = Range(h.tasks[t].deps)

InitHash ==
    /\ sortG \in HashGraphs
    /\ hashG \in {h \in HashGraphs : SameContent(sortG, h)}
    /\ hashRes = NoHashes
    /\ sortValid = "unchecked"
    /\ sortRes1 = Unsorted
    /\ sortRes2 = Unsorted
    /\ file = NoGraph
    /\ ExecIdle
    /\ NewExecutor

HashFirst ==
    /\ hashRes.first = Unhashed
    /\ \E iter \in MapOrders(TaskNames(sortG)) :
         hashRes' = [hashRes EXCEPT !.first = ComputeHash(sortG, iter)]
    /\ UNCHANGED <<sortG, sortValid, sortRes1, sortRes2, hashG, execVars, dbVars>>

HashAgain ==
    /\ hashRes.first # Unhashed
    /\ hashRes.again = Unhashed
    /\ \E iter \in MapOrders(TaskNames(sortG)) :
         hashRes' = [hashRes EXCEPT !.again = ComputeHash(sortG, iter)]
    /\ UNCHANGED <<sortG, sortValid, sortRes1, sortRes2, hashG, execVars, dbVars>>

HashOther ==
    /\ hashRes.other = Unhashed
    /\ \E iter \in MapOrders(TaskNames(hashG)) :
         hashRes' = [hashRes EXCEPT !.other = ComputeHash(hashG, iter)]
    /\ UNCHANGED <<sortG, sortValid, sortRes1, sortRes2, hashG, execVars, dbVars>>

NextHash == HashFirst \/ HashAgain \/ HashOther

SpecHash == InitHash /\ [][NextHash]_vars

\* Validate on graphs as a caller of the package can build them: the
\* workflow name may be empty, a task may have no command, a dependency may
\* name no task, and a task may be stored under a key that the pattern
\* rejects (a space in it).
BadName == "a b"
ValidateTasksOf(n) ==
    IF n = BadName THEN [cmd : {"", "sh"}, deps : {<<>>}, retries : {0}]
    ELSE [cmd : {"", "sh"}, deps : DepSeqs, retries : {0}]
ValidateGraphs ==
    {[name |-> w, tasks |-> f] :
        w \in {"", "wf"},
        f \in UNION {{h \in [S -> [cmd : {"", "sh"}, deps : DepSeqs, retries : {0}]] :
                         \A n \in S : h[n] \in ValidateTasksOf(n)} :
                     S \in SUBSET {"a", "b", BadName}}}

InitValidate ==
    /\ sortG \in ValidateGraphs
    /\ sortValid = "unchecked"
    /\ sortRes1 = Unsorted
    /\ sortRes2 = Unsorted
    /\ HashIdle
    /\ file = NoGraph
    /\ ExecIdle
    /\ NewExecutor

SpecValidate == InitValidate /\ [][SortValidate]_vars

\* ------------------------------------------------------------------------
\* Run store (internal/run/store.go)
\* ------------------------------------------------------------------------
\* Variant: the id is not fresh, the INSERT replaces the latest row.
NewWorkflowRunReusing(rs, workflow) ==
    IF rs = <<>>
    THEN <<[workflow |-> workflow, status |-> "running", ended |-> FALSE]>>
    ELSE [rs EXCEPT ![Len(rs)] =
             [workflow |-> workflow, status |-> "running", ended |-> FALSE]]
\* Store.NewWorkflowRun: INSERT with status running, ended_at NULL. The
\* columns workflow_hash, started_at and created_at are written here and
\* never read or updated by the executor; the row of the model keeps the
\* columns that a later statement reads or writes.
NewWorkflowRun(rs, workflow) ==
    Append(rs, [workflow |-> workflow, status |-> "running", ended |-> FALSE])

\* Variant: the UPDATE matches no row.
UpdateLost(rs, w) == rs
\* Store.Update: UPDATE workflow_runs SET status, ended_at ... WHERE id.
Update(rs, w) ==
    [i \in 1..Len(rs) |->
        IF i = w.id THEN [rs[i] EXCEPT !.status = w.status, !.ended = w.ended]
        ELSE rs[i]]

\* Store.Load: the in-memory WorkflowRun of row id.
Load(rs, id) ==
    [id |-> id, workflow |-> rs[id].workflow, status |-> rs[id].status,
     ended |-> rs[id].ended]

\* Variant: the row is inserted with status failed.
SaveTaskRunAsFailed(rows, t) ==
    Append(rows, [t EXCEPT !.id = Len(rows) + 1, !.status = "failed"])
\* Store.SaveTaskRun: INSERT, the surrogate id is the insertion position.
SaveTaskRun(rows, t) == Append(rows, [t EXCEPT !.id = Len(rows) + 1])

\* Variant: the UPDATE changes no row.
UpdateTaskRunLost(rows, t) == rows
\* Store.UpdateTaskRun: UPDATE task_runs SET status, ended_at, attempts,
\* exit_code, log_path, last_error WHERE id.
UpdateTaskRun(rows, t) ==
    [i \in 1..Len(rows) |->
        IF i = t.id
        THEN [rows[i] EXCEPT !.status = t.status, !.ended = t.ended,
                             !.attempts = t.attempts, !.exitCode = t.exitCode,
                             !.logPath = t.logPath, !.lastError = t.lastError]
        ELSE rows[i]]

\* Store.LoadTaskRuns: the rows of a run, in insertion order.
LoadTaskRuns(rows, runID) == SelectSeq(rows, LAMBDA r : r.run = runID)

\* Variant: the lookup never finds a row.
GetTaskRunMisses(rows, runID, name) == NilTaskRun
\* Store.GetTaskRun: the first row of (runID, name), nil on sql.ErrNoRows.
GetTaskRun(rows, runID, name) ==
    LET hits == SelectSeq(rows, LAMBDA r : r.run = runID /\ r.name = name)
    IN IF hits = <<>> THEN NilTaskRun ELSE Head(hits)

\* ------------------------------------------------------------------------
\* Executor (Executor.Run, Executor.Resume, resumeCmd)
\* ------------------------------------------------------------------------
\* Variant: the attempt number is left out of the file name.
LogPathPerTask(runID, name, n) == <<runID, name, 1>>
\* filepath.Join(logs, wr.ID, fmt.Sprintf("%s_%d.log", t.Name, attempt))
LogPath(runID, name, n) == <<runID, name, n>>

\* os.WriteFile(logPath, out, 0644): creates or truncates the file.
WriteFile(fs, path, by) ==
    {f \in fs : f.path # path} \cup {[path |-> path, by |-> by]}

\* for attempt := 1; attempt <= t.Retries+1; attempt++
LoopContinues(n, retries) == n <= retries + 1

\* Variant: the last attempt is taken to be attempt number retries.
IsLastAttemptOffByOne(n, retries) == n = retries
\* if attempt == t.Retries+1
IsLastAttempt(n, retries) == n = retries + 1

\* Variant: Resume never skips.
NeverSkip(t) == FALSE
\* if tr != nil && tr.Status == run.TaskSuccess { continue }
AlreadyCompleted(t) == t # NilTaskRun /\ t.status = "success"

\* Variant: a failed run row keeps status running.
RunStillRunning(w) == [w EXCEPT !.ended = TRUE]
\* wr.Status = run.StatusFailed; wr.EndedAt = now
RunFailed(w) == [w EXCEPT !.status = "failed", !.ended = TRUE]
\* wr.Status = run.StatusSuccess; wr.EndedAt = now
RunSucceeded(w) == [w EXCEPT !.status = "success", !.ended = TRUE]

\* The workflow documents of the executor model: tasks a and b, each with
\* at most the other as its dependency; a carries any retries value TOML
\* can (down to -1), b the default 0.
ExecNames == {"a", "b"}
ExecDeps(t) == {<<>>} \cup {<<u>> : u \in ExecNames \ {t}}
ExecRetries(t) == IF t = "a" THEN -1..MaxRetries ELSE {0}
\* The commands: "sh" runs in the foreground of its shell; "sh &" also
\* leaves a background process in the process group of the shell, its
\* output redirected away from the pipe CombinedOutput reads.
Procs(cmd) == IF cmd = "sh &" THEN {"shell", "member"} ELSE {"shell"}
ExecGraphsOf(cmds) ==
    {[name |-> "wf", tasks |-> f] :
        f \in {h \in [ExecNames -> [cmd : cmds,
                                   deps : UNION {ExecDeps(t) : t \in ExecNames},
                                   retries : -1..MaxRetries]] :
                  \A t \in ExecNames : /\ h[t].deps \in ExecDeps(t)
                                       /\ h[t].retries \in ExecRetries(t)}}
ExecGraphs == ExecGraphsOf({"sh"})
ForkGraphs == ExecGraphsOf({"sh", "sh &"})

Init ==
    /\ sortG = NoGraph
    /\ sortValid = "unchecked"
    /\ sortRes1 = Unsorted
    /\ sortRes2 = Unsorted
    /\ HashIdle
    /\ file \in ExecGraphs
    /\ ExecIdle
    /\ NewExecutor

Return(kind, task) == [kind |-> kind, task |-> task, workflow |-> file.name]

\* The workflow file is edited between two calls (dependencies and
\* retries; the commands stay); nothing of the call that returned is kept
\* but what it left in the store.
Rewrite ==
    /\ pc = "done"
    /\ calls < MaxCalls
    /\ \E g \in ForkGraphs \ {file} :
         /\ \A t \in ExecNames : g.tasks[t].cmd = file.tasks[t].cmd
         /\ file' = g
    /\ pc' = "idle" /\ mode' = "none" /\ d' = NoGraph /\ order' = <<>>
    /\ idx' = 0 /\ attempt' = 0 /\ wr' = NilRun /\ tr' = NilTaskRun
    /\ ret' = NoReturn /\ cancelled' = FALSE
    /\ execLog' = <<>> /\ created' = {} /\ skips' = {} /\ killed' = FALSE
    /\ group' = {}
    /\ argv' = <<>>
    /\ UNCHANGED <<sortVars, dbVars, timeVars, out, storeVars, calls, envVars>>

\* db.Exec / db.QueryRow while the database rejects statements: the
\* statement returns an error and the table is left as it was.
Persist(old, new) == IF storeDown THEN old ELSE new

\* Variant: the cancellation channel is never looked at.
CtxNeverDone(c) == FALSE
\* select { case <-ctx.Done(): ... default: }
CtxDone(c) == c

\* Variant: resume accepts a run of any status.
AlwaysResumable(w) == TRUE
\* if workflowRun.Status != run.StatusFailed { return not resumable }
Resumable(w) == w.status = "failed"

\* Executor.Run up to the task loop: the run row and the topological sort
\* (ComputeHash marshals strings and integers only and cannot fail).
ExecutorRun ==
    /\ pc \in {"idle", "done"}
    /\ calls < MaxCalls
    /\ Len(runs) < MaxRuns
    /\ calls' = calls + 1
    /\ mode' = "run"
    /\ d' = file
    /\ cancelled' = FALSE
    /\ execLog' = <<>> /\ created' = {} /\ skips' = {} /\ killed' = FALSE
    /\ group' = {}
    /\ tr' = NilTaskRun /\ attempt' = 0
    /\ IF storeDown
       THEN /\ wr' = NilRun
            /\ ret' = Return("store_error", "")
            /\ pc' = "done"
            /\ order' = <<>> /\ idx' = 0
            /\ UNCHANGED <<runs, spawned>>
       ELSE LET rs == NewWorkflowRun(runs, file.name)
                w == Load(rs, Len(rs))
            IN /\ spawned' = Append(spawned, 0)
               /\ \E iter \in MapOrders(TaskNames(file)) :
                    LET sorted == TopologicalSort(file, iter)
                    IN IF sorted.err # ""
                       THEN /\ wr' = RunFailed(w)
                            /\ runs' = Update(rs, RunFailed(w))
                            /\ ret' = Return("sort_error", "")
                            /\ pc' = "done"
                            /\ order' = <<>> /\ idx' = 0
                       ELSE /\ wr' = w
                            /\ runs' = rs
                            /\ ret' = NoReturn
                            /\ pc' = "loop"
                            /\ order' = sorted.order /\ idx' = 1
    /\ UNCHANGED <<sortVars, dbVars, timeVars, file, taskRuns, logs, storeDown>>

\* Executor.Run called by a program that links the package: no command
\* line, nothing reported.
Run ==
    /\ ExecutorRun
    /\ argv' = <<>>
    /\ UNCHANGED out

\* resumeCmd (load the run, refuse unless failed) and Executor.Resume up
\* to the task loop (load the workflow, topological sort).
ResumeCmd ==
    /\ pc \in {"idle", "done"}
    /\ calls < MaxCalls
    /\ calls' = calls + 1
    /\ mode' = "resume"
    /\ cancelled' = FALSE
    /\ execLog' = <<>> /\ created' = {} /\ skips' = {} /\ killed' = FALSE
    /\ group' = {}
    /\ tr' = NilTaskRun /\ attempt' = 0
    /\ \E id \in 1..MaxRuns :
         IF storeDown \/ id > Len(runs)
         THEN /\ ret' = Return("not_found", "")
              /\ pc' = "done"
              /\ wr' = NilRun /\ d' = NoGraph /\ order' = <<>> /\ idx' = 0
              /\ runs' = runs
         ELSE IF ~Resumable(Load(runs, id))
         THEN /\ ret' = Return("not_resumable", "")
              /\ pc' = "done"
              /\ wr' = Load(runs, id) /\ d' = NoGraph /\ order' = <<>> /\ idx' = 0
              /\ runs' = runs
         ELSE \E iv, iter \in MapOrders(TaskNames(file)) :
              IF Validate(file, iv) # ""
              THEN /\ ret' = Return("load_error", "")
                   /\ pc' = "done"
                   /\ wr' = Load(runs, id) /\ d' = NoGraph
                   /\ order' = <<>> /\ idx' = 0
                   /\ runs' = runs
              ELSE LET sorted == TopologicalSort(file, iter)
                       w == Load(runs, id)
                   IN /\ d' = file
                      /\ IF sorted.err # ""
                         THEN /\ wr' = RunFailed(w)
                              /\ runs' = Update(runs, RunFailed(w))
                              /\ ret' = Return("sort_error", "")
                              /\ pc' = "done"
                              /\ order' = <<>> /\ idx' = 0
                         ELSE /\ wr' = w
                              /\ runs' = runs
                              /\ ret' = NoReturn
                              /\ pc' = "loop"
                              /\ order' = sorted.order /\ idx' = 1
    /\ argv' = <<"resume">>
    /\ UNCHANGED <<sortVars, dbVars, timeVars, out, file, taskRuns, logs, envVars>>

\* ctx is cancelled (Ctrl+C) while a call is executing.
Cancel ==
    /\ pc \in {"loop", "attempt", "child"}
    /\ ~cancelled
    /\ cancelled' = TRUE
    /\ UNCHANGED <<sortVars, dbVars, timeVars, cliVars, file, storeVars, pc, mode, d, order, idx,
                   attempt, wr, tr, ret, histVars, envVars>>

\* One iteration of the task loop up to the attempt loop: the skip check
\* of Resume, the cancellation check, the task row.
TaskBegin ==
    /\ pc = "loop"
    /\ idx <= Len(order)
    /\ LET t == order[idx]
           found == IF mode = "resume" THEN GetTaskRun(taskRuns, wr.id, t)
                    ELSE NilTaskRun
           fresh == [NilTaskRun EXCEPT !.run = wr.id, !.name = t,
                                       !.status = "running"]
           rows == IF found = NilTaskRun THEN SaveTaskRun(taskRuns, fresh)
                   ELSE taskRuns
           cur == IF found = NilTaskRun THEN Last(rows) ELSE found
       IN IF mode = "resume" /\ storeDown
          THEN \* GetTaskRun: err != nil && err != sql.ErrNoRows
               /\ ret' = Return("store_error", t)
               /\ pc' = "done"
               /\ UNCHANGED <<runs, taskRuns, idx, attempt, wr, tr, created, skips>>
          ELSE IF mode = "resume" /\ AlreadyCompleted(found)
          THEN /\ idx' = idx + 1
               /\ skips' = skips \cup {t}
               /\ UNCHANGED <<runs, taskRuns, pc, attempt, wr, tr, ret, created>>
          ELSE IF CtxDone(cancelled)
          THEN /\ wr' = RunFailed(wr)
               /\ runs' = Persist(runs, Update(runs, RunFailed(wr)))
               /\ ret' = Return("cancelled", "")
               /\ pc' = "done"
               /\ UNCHANGED <<taskRuns, idx, attempt, tr, created, skips>>
          ELSE IF found = NilTaskRun /\ storeDown
          THEN \* SaveTaskRun: if err != nil { return err }
               /\ ret' = Return("store_error", t)
               /\ pc' = "done"
               /\ UNCHANGED <<runs, taskRuns, idx, attempt, wr, tr, created, skips>>
          ELSE /\ taskRuns' = rows
               /\ tr' = cur
               /\ created' = IF found = NilTaskRun THEN created \cup {t} ELSE created
               /\ attempt' = 1
               /\ IF LoopContinues(1, d.tasks[t].retries)
                  THEN pc' = "attempt" /\ idx' = idx
                  ELSE pc' = "loop" /\ idx' = idx + 1
               /\ UNCHANGED <<runs, wr, ret, skips>>
    /\ UNCHANGED <<sortVars, dbVars, timeVars, cliVars, file, logs, mode, d, order, cancelled, calls,
                   execLog, killed, group, envVars>>

\* The rest of one attempt once cmd.CombinedOutput has returned: the log
\* file, the classification of err, the row updates, and the decision to
\* go to the next task, to retry or to fail the run.
\*   class: "nil" (no error), "exit" (*exec.ExitError), "other"
AfterAttempt(class, code, msg, started) ==
    LET t == order[idx]
        retries == d.tasks[t].retries
        logPath == LogPath(wr.id, t, attempt)
        tr1 == [tr EXCEPT !.attempts = attempt, !.logPath = logPath]
        tr2 == IF class = "nil"
               THEN [tr1 EXCEPT !.exitCode = [valid |-> TRUE, int64 |-> 0]]
               ELSE [tr1 EXCEPT !.exitCode = [valid |-> TRUE, int64 |-> code],
                                !.lastError = msg]
        rows2 == Persist(taskRuns, UpdateTaskRun(taskRuns, tr2))
        done == [tr2 EXCEPT !.status = "success", !.ended = TRUE]
        failed == [tr2 EXCEPT !.status = "failed", !.ended = TRUE]
    IN /\ logs' = WriteFile(logs, logPath, calls)
       /\ execLog' = Append(execLog, [task |-> t, attempt |-> attempt,
                                      started |-> started, ok |-> class = "nil"])
       /\ IF class = "nil"
          THEN /\ tr' = done
               /\ taskRuns' = Persist(rows2, UpdateTaskRun(rows2, done))
               /\ pc' = "loop" /\ idx' = idx + 1
               /\ UNCHANGED <<runs, wr, ret, attempt>>
          ELSE IF IsLastAttempt(attempt, retries)
          THEN /\ tr' = failed
               /\ taskRuns' = Persist(rows2, UpdateTaskRun(rows2, failed))
               /\ wr' = RunFailed(wr)
               /\ runs' = Persist(runs, Update(runs, RunFailed(wr)))
               /\ ret' = Return("task_failed", t)
               /\ pc' = "done"
               /\ UNCHANGED <<idx, attempt>>
          ELSE /\ tr' = tr2
               /\ taskRuns' = rows2
               /\ attempt' = attempt + 1
               /\ IF LoopContinues(attempt + 1, retries)
                  THEN pc' = "attempt" /\ idx' = idx
                  ELSE pc' = "loop" /\ idx' = idx + 1
               /\ UNCHANGED <<runs, wr, ret>>

\* exec.CommandContext(ctx, "bash", "-c", t.Cmd) and the start of
\* CombinedOutput: with ctx already done Start returns ctx.Err() and no
\* process exists; otherwise the child runs in a process group of its own
\* (setCmdProcessAttrs: Setpgid).
Spawn ==
    /\ pc = "attempt"
    /\ IF cancelled
       THEN /\ AfterAttempt("other", 1, "context canceled", FALSE)
            /\ UNCHANGED <<killed, group, spawned, elapsed>>
       ELSE /\ pc' = "child"
            /\ elapsed' = 0
            /\ tr' = [tr EXCEPT !.attempts = attempt]
            /\ group' = group \cup Procs(d.tasks[order[idx]].cmd)
            /\ spawned' = [spawned EXCEPT ![wr.id] = @ + 1]
            /\ UNCHANGED <<storeVars, idx, attempt, wr, ret, execLog, killed>>
    /\ UNCHANGED <<sortVars, dbVars, timeout, cliVars, file, mode, d, order, cancelled,
                   calls, created, skips, storeDown>>

\* The child exits by itself with status 0 or 2.
ChildExit ==
    /\ pc = "child"
    /\ \/ AfterAttempt("nil", 0, "", TRUE)
       \/ AfterAttempt("exit", 2, "exit status 2", TRUE)
    /\ group' = group \ {"shell"}
    /\ UNCHANGED <<sortVars, dbVars, timeVars, cliVars, file, mode, d, order, cancelled, calls, created,
                   skips, killed, envVars>>

\* ctx is done while the child runs: os.Process.Kill on the pid of the
\* shell, Wait returns an ExitError whose ExitCode() is -1.
ChildKilled ==
    /\ pc = "child"
    /\ cancelled
    /\ AfterAttempt("exit", -1, "signal: killed", TRUE)
    /\ killed' = TRUE
    /\ group' = group \ {"shell"}
    /\ UNCHANGED <<sortVars, dbVars, timeVars, cliVars, file, mode, d, order, cancelled, calls, created,
                   skips, envVars>>

\* A background member of a process group ends by itself.
MemberExit ==
    /\ "member" \in group
    /\ group' = group \ {"member"}
    /\ UNCHANGED <<sortVars, dbVars, timeVars, cliVars, file, storeVars, callVars, calls, execLog,
                   created, skips, killed, envVars>>

\* After the task loop: the run row becomes success, the call returns nil.
Finish ==
    /\ pc = "loop"
    /\ idx > Len(order)
    /\ wr' = RunSucceeded(wr)
    /\ runs' = Persist(runs, Update(runs, RunSucceeded(wr)))
    /\ ret' = Return("ok", "")
    /\ pc' = "done"
    /\ UNCHANGED <<sortVars, dbVars, timeVars, cliVars, file, taskRuns, logs, mode, d, order, idx, attempt,
                   tr, cancelled, histVars, envVars>>

\* The database starts to reject statements (disk full, file locked by
\* another process); it is repaired after the command has returned.
StoreDown ==
    /\ ~storeDown
    /\ storeDown' = TRUE
    /\ UNCHANGED <<sortVars, dbVars, timeVars, cliVars, file, storeVars, callVars, histVars, spawned>>

StoreUp ==
    /\ storeDown
    /\ pc = "done"
    /\ storeDown' = FALSE
    /\ UNCHANGED <<sortVars, dbVars, timeVars, cliVars, file, storeVars, callVars, histVars, spawned>>

Next ==
    \/ Rewrite
    \/ Run
    \/ ResumeCmd
    \/ Cancel
    \/ TaskBegin
    \/ Spawn
    \/ ChildExit
    \/ ChildKilled
    \/ Finish

Spec == Init /\ [][Next]_vars

\* The executor built as a literal with any DefaultTaskTimeout, and a clock:
\* a tick passes while the child of an attempt runs. No statement of the
\* executor reads DefaultTaskTimeout, so no action depends on timeout.
InitTimeout ==
    /\ sortG = NoGraph
    /\ sortValid = "unchecked"
    /\ sortRes1 = Unsorted
    /\ sortRes2 = Unsorted
    /\ HashIdle
    /\ file \in ExecGraphs
    /\ ExecIdle
    /\ timeout \in 0..MaxTimeout

Tick ==
    /\ pc = "child"
    /\ elapsed <= MaxTimeout
    /\ elapsed' = elapsed + 1
    /\ UNCHANGED <<sortVars, dbVars, file, storeVars, callVars, histVars, envVars, timeout,
                   cliVars>>

NextTimeout ==
    \/ Run
    \/ ResumeCmd
    \/ Cancel
    \/ TaskBegin
    \/ Spawn
    \/ ChildExit
    \/ ChildKilled
    \/ Finish
    \/ Tick

SpecTimeout == InitTimeout /\ [][NextTimeout]_vars

\* The executor on workflows whose commands may leave background
\* processes behind.
InitProc ==
    /\ sortG = NoGraph
    /\ sortValid = "unchecked"
    /\ sortRes1 = Unsorted
    /\ sortRes2 = Unsorted
    /\ HashIdle
    /\ file \in ForkGraphs
    /\ ExecIdle
    /\ NewExecutor

NextProc ==
    \/ Rewrite
    \/ Run
    \/ ResumeCmd
    \/ Cancel
    \/ TaskBegin
    \/ Spawn
    \/ ChildExit
    \/ ChildKilled
    \/ MemberExit
    \/ Finish

SpecProc == InitProc /\ [][NextProc]_vars

\* The executor on a database that may reject statements.
NextFault ==
    \/ Rewrite
    \/ Run
    \/ ResumeCmd
    \/ Cancel
    \/ TaskBegin
    \/ Spawn
    \/ ChildExit
    \/ ChildKilled
    \/ Finish
    \/ StoreDown
    \/ StoreUp

SpecFault == Init /\ [][NextFault]_vars

\* ------------------------------------------------------------------------
\* The commands run and validate of the command line; every invocation is
\* a call of its own on the workflow file and the database.
\* ------------------------------------------------------------------------
\* Variant: the workflow is parsed but not validated.
DagLoadUnvalidated(f, iv) == IF f = NoGraph THEN "failed to read workflow file" ELSE ""
\* dag.Load: read <workflows>/<name>.toml (NoGraph: there is no such file),
\* parse it, Validate it; "" is the nil error.
DagLoad(f, iv) == IF f = NoGraph THEN "failed to read workflow file" ELSE Validate(f, iv)

\* Variant: the flag is not looked at.
DryRunIgnored(flag) == FALSE
\* if runDryRun { ... return }
DryRun(flag) == flag

\* planRun: the tasks in the order of TopologicalSort, numbered from 1.
PlanRun(g, ord) ==
    [i \in 1..Len(ord) |-> [order |-> i, name |-> ord[i], cmd |-> g.tasks[ord[i]].cmd]]

\* A call returns before the executor exists: the locals of the executor
\* are those of no call.
NoExecution ==
    /\ pc' = "done"
    /\ cancelled' = FALSE
    /\ execLog' = <<>> /\ created' = {} /\ skips' = {} /\ killed' = FALSE
    /\ group' = {}
    /\ wr' = NilRun /\ tr' = NilTaskRun /\ attempt' = 0
    /\ order' = <<>> /\ idx' = 0
    /\ UNCHANGED <<sortVars, dbVars, timeVars, file, storeVars, envVars>>

\* runCmd: dag.Load, then the plan (--dry-run) or the store and
\* Executor.Run.
RunCmd ==
    /\ pc \in {"idle", "done"}
    /\ calls < MaxCalls
    /\ \E flag \in BOOLEAN, iv, iter \in MapOrders(TaskNames(file)) :
         LET e == DagLoad(file, iv)
         IN /\ argv' = IF flag THEN <<"run", "--dry-run">> ELSE <<"run">>
            /\ IF e # ""
               THEN /\ calls' = calls + 1
                    /\ mode' = "run"
                    /\ d' = NoGraph
                    /\ ret' = Return("load_error", "")
                    /\ out' = [valid |-> FALSE, error |-> e, plan |-> <<>>]
                    /\ NoExecution
               ELSE IF DryRun(flag)
               THEN LET sorted == TopologicalSort(file, iter)
                    IN /\ calls' = calls + 1
                       /\ mode' = "run"
                       /\ d' = file
                       /\ IF sorted.err # ""
                          THEN /\ ret' = Return("plan_error", "")
                               /\ out' = [valid |-> FALSE, error |-> sorted.err,
                                          plan |-> <<>>]
                          ELSE /\ ret' = Return("ok", "")
                               /\ out' = [valid |-> TRUE, error |-> "",
                                          plan |-> PlanRun(file, sorted.order)]
                       /\ NoExecution
               ELSE /\ ExecutorRun
                    /\ out' = NoOutput

\* validateSingleWorkflow: dag.Load and a second TopologicalSort; with
\* --json the report is printed and the error of the encoder (nil) is what
\* the command returns.
ValidateCmd ==
    /\ pc \in {"idle", "done"}
    /\ calls < MaxCalls
    /\ calls' = calls + 1
    /\ mode' = "validate"
    /\ d' = NoGraph
    /\ \E json \in BOOLEAN, iv, iter \in MapOrders(TaskNames(file)) :
         LET e == DagLoad(file, iv)
             err == IF e # "" THEN e ELSE TopologicalSort(file, iter).err
         IN /\ argv' = IF json THEN <<"validate", "--json">> ELSE <<"validate">>
            /\ out' = [valid |-> err = "", error |-> err, plan |-> <<>>]
            /\ ret' = IF err = "" \/ json THEN Return("ok", "")
                      ELSE Return("load_error", "")
    /\ NoExecution

\* Execute: os.Exit(1) when the command returned an error, 0 otherwise.
ExitCode == IF ret.kind = "ok" THEN 0 ELSE 1

\* The files of the command-line model: the graphs of the executor with
\* no retries, and no file at all.
CliFiles == {g \in ExecGraphs : g.tasks["a"].retries = 0} \cup {NoGraph}

InitCli ==
    /\ sortG = NoGraph
    /\ sortValid = "unchecked"
    /\ sortRes1 = Unsorted
    /\ sortRes2 = Unsorted
    /\ HashIdle
    /\ file \in CliFiles
    /\ ExecIdle
    /\ NewExecutor

NextCli ==
    \/ RunCmd
    \/ ValidateCmd
    \/ ResumeCmd
    \/ Cancel
    \/ TaskBegin
    \/ Spawn
    \/ ChildExit
    \/ ChildKilled
    \/ Finish

SpecCli == InitCli /\ [][NextCli]_vars

\* ------------------------------------------------------------------------
\* The run rows of the store with all their columns. A row is
\* [id, workflow, workflow_hash, status, started_at, ended_at, exit_code,
\* meta, created_at]; the optional columns are sql.Null* values [valid, v].
\* Times are ticks: the driver keeps the instant of a time.Time.
\* ------------------------------------------------------------------------
NullTime == [valid |-> FALSE, v |-> 0]
NullInt == [valid |-> FALSE, v |-> 0]
NullString == [valid |-> FALSE, v |-> ""]

\* An optional value as the column keeps it: NULL when Valid is false
\* (whatever the payload), and NULL scans back as the zero value.
SqlNull(n, zero) == IF n.valid THEN n ELSE zero

Min(x, y) == IF x <= y THEN x ELSE y
Max(x, y) == IF x >= y THEN x ELSE y

\* QueryCreateWorkflowRun: the columns ended_at, exit_code, meta are not
\* named by the INSERT and are NULL.
CreateWorkflowRun(t, w) ==
    Append(t, [w EXCEPT !.ended_at = NullTime, !.exit_code = NullInt,
                        !.meta = NullString])

\* Variant: the UPDATE does not set meta.
UpdateWorkflowRunMetaKept(t, w) ==
    [i \in 1..Len(t) |->
        IF t[i].id = w.id
        THEN [t[i] EXCEPT !.status = w.status,
                          !.ended_at = SqlNull(w.ended_at, NullTime),
                          !.exit_code = SqlNull(w.exit_code, NullInt)]
        ELSE t[i]]
\* QueryUpdateWorkflowRun: SET status, ended_at, exit_code, meta WHERE id.
UpdateWorkflowRun(t, w) ==
    [i \in 1..Len(t) |->
        IF t[i].id = w.id
        THEN [t[i] EXCEPT !.status = w.status,
                          !.ended_at = SqlNull(w.ended_at, NullTime),
                          !.exit_code = SqlNull(w.exit_code, NullInt),
                          !.meta = SqlNull(w.meta, NullString)]
        ELSE t[i]]

\* QueryLoadWorkflowRun, for an id that the table holds.
LoadWorkflowRun(t, id) == t[CHOOSE i \in 1..Len(t) : t[i].id = id]

\* WHERE (? = '' OR workflow = ?) AND (? = '' OR status = ?)
Where(t, workflow, status) ==
    SelectSeq(t, LAMBDA r : /\ (workflow = "" \/ r.workflow = workflow)
                            /\ (status = "" \/ r.status = status))

\* ORDER BY created_at DESC: any arrangement of the rows with created_at
\* descending; the order of rows with equal created_at is not defined.
OrderByCreatedAtDesc(rows) ==
    {[i \in 1..Len(rows) |-> rows[p[i]]] : p \in
        {q \in MapOrders(1..Len(rows)) :
            \A i, j \in 1..Len(rows) :
                i < j => rows[q[i]].created_at >= rows[q[j]].created_at}}

\* Variant: the limit is applied before the offset.
LimitOffsetSwapped(rows, limit, offset) ==
    LET n == IF limit < 0 THEN Len(rows) ELSE Min(limit, Len(rows))
        skip == IF offset < 0 THEN 0 ELSE offset
    IN SubSeq(rows, skip + 1, n)
\* LIMIT ? OFFSET ?: a negative limit is no limit, a negative offset is 0.
LimitOffset(rows, limit, offset) ==
    LET skip == IF offset < 0 THEN 0 ELSE offset
        rest == SubSeq(rows, skip + 1, Len(rows))
    IN IF limit < 0 THEN rest ELSE SubSeq(rest, 1, Min(limit, Len(rest)))

\* What Update is called with: status, ended_at, exit_code and meta, one
\* tuple per way a column can be written (set, NULL, NULL with a payload
\* left in the struct, the empty string).
Written(now) ==
    { [status |-> "failed", ended_at |-> [valid |-> TRUE, v |-> now],
       exit_code |-> [valid |-> TRUE, v |-> 1], meta |-> NullString],
      [status |-> "success", ended_at |-> [valid |-> TRUE, v |-> now],
       exit_code |-> [valid |-> TRUE, v |-> 0],
       meta |-> [valid |-> TRUE, v |-> "{}"]],
      [status |-> "failed", ended_at |-> [valid |-> FALSE, v |-> now],
       exit_code |-> [valid |-> FALSE, v |-> 1],
       meta |-> [valid |-> FALSE, v |-> "{}"]],
      [status |-> "running", ended_at |-> NullTime, exit_code |-> NullInt,
       meta |-> [valid |-> TRUE, v |-> ""]] }

Workflows == {"wf", "other"}
Limits == -1..2
Offsets == -1..1

\* The result of a query is not used by any later call.
Writable == op.name \notin {"load", "list"}

\* Store.NewWorkflowRun: a fresh id, status running, two readings of the
\* clock (the second may give the tick of the first, or the next one).
StoreNew ==
    /\ Writable
    /\ Len(tbl) < MaxRuns
    /\ \E workflow \in Workflows, t1 \in {clock}, t2 \in {clock, clock + 1} :
            LET run == [id |-> Len(tbl) + 1, workflow |-> workflow,
                        workflow_hash |-> <<"hash", workflow>>,
                        status |-> "running", started_at |-> t1,
                        ended_at |-> NullTime, exit_code |-> NullInt,
                        meta |-> NullString, created_at |-> t2]
            IN /\ t2 <= MaxRuns
               /\ tbl' = CreateWorkflowRun(tbl, run)
               /\ clock' = t2
               /\ op' = [name |-> "new",
                         args |-> <<workflow, <<"hash", workflow>>>>,
                         row |-> run, res |-> <<>>]
    /\ UNCHANGED <<sortVars, execVars>>

\* Store.Update with a row of the store whose status, ended_at,
\* exit_code and meta the caller has set.
StoreUpdate ==
    /\ Writable
    /\ \E i \in 1..Len(tbl), w \in Written(clock) :
         LET run == [tbl[i] EXCEPT !.status = w.status,
                                   !.ended_at = w.ended_at,
                                   !.exit_code = w.exit_code,
                                   !.meta = w.meta]
         IN /\ tbl' = UpdateWorkflowRun(tbl, run)
            /\ op' = [name |-> "update", args |-> <<>>, row |-> run,
                      res |-> <<>>]
    /\ UNCHANGED <<sortVars, execVars, clock>>

\* Store.Load of the row that the last call wrote.
StoreLoad ==
    /\ op.name \in {"new", "update"}
    /\ op' = [op EXCEPT !.name = "load",
                        !.res = <<LoadWorkflowRun(tbl, op.row.id)>>]
    /\ UNCHANGED <<sortVars, execVars, tbl, clock>>

\* Store.ListRuns.
StoreList ==
    /\ Writable
    /\ \E workflow \in {"", "wf"}, status \in {"", "failed"},
          limit \in Limits, offset \in Offsets :
         \E sorted \in OrderByCreatedAtDesc(Where(tbl, workflow, status)) :
            op' = [name |-> "list",
                   args |-> <<workflow, status, limit, offset>>,
                   row |-> <<>>,
                   res |-> LimitOffset(sorted, limit, offset)]
    /\ UNCHANGED <<sortVars, execVars, tbl, clock>>

InitStore ==
    /\ sortG = NoGraph
    /\ sortValid = "unchecked"
    /\ sortRes1 = Unsorted
    /\ sortRes2 = Unsorted
    /\ HashIdle
    /\ file = NoGraph
    /\ ExecIdle
    /\ NewExecutor

NextStore == StoreNew \/ StoreUpdate \/ StoreLoad \/ StoreList

SpecStore == InitStore /\ [][NextStore]_vars

\* ------------------------------------------------------------------------
\* Properties of the graph operations (checked under SpecSort)
\* ------------------------------------------------------------------------
IsPermutationOfTasks(ord, g) ==
    /\ Len(ord) = Cardinality(TaskNames(g))
    /\ Range(ord) = TaskNames(g)

DepsPrecede(ord, g) ==
    \A i \in 1..Len(ord) :
        \A k \in 1..Len(g.tasks[ord[i]].deps) :
            \E j \in 1..(i - 1) : ord[j] = g.tasks[ord[i]].deps[k]

\* The tasks with no unprocessed dependency before position i of ord.
ReadyAt(ord, g, i) ==
    LET emitted == {ord[j] : j \in 1..(i - 1)}
    IN {t \in TaskNames(g) \ emitted : Range(g.tasks[t].deps) \subseteq emitted}

\* C7: for every graph accepted by Validate, TopologicalSort returns every
\* task exactly once, each task after all of its dependencies.
C7_SortIsOrderedPermutation ==
    (sortValid = "" /\ sortRes1 # Unsorted) =>
        /\ sortRes1.err = ""
        /\ IsPermutationOfTasks(sortRes1.order, sortG)
        /\ DepsPrecede(sortRes1.order, sortG)

\* C7 witness: an accepted three-task graph with a task that has two
\* distinct dependencies and a dependency that has a dependency itself,
\* sorted.
C7_Witness ==
    /\ sortValid = ""
    /\ sortRes1 # Unsorted
    /\ Cardinality(TaskNames(sortG)) = 3
    /\ \E t \in TaskNames(sortG) :
         /\ Cardinality(Range(sortG.tasks[t].deps)) = 2
         /\ \E u \in Range(sortG.tasks[t].deps) : sortG.tasks[u].deps # <<>>

\* C8: at every extraction step TopologicalSort emits the lexicographically
\* smallest of the tasks that have no unprocessed dependency.
C8_LexicographicTieBreak ==
    (sortRes1 # Unsorted /\ sortRes1.err = "") =>
        \A i \in 1..Len(sortRes1.order) :
            \A t \in ReadyAt(sortRes1.order, sortG, i) :
                ~StrLess(t, sortRes1.order[i])

\* C9: two invocations of TopologicalSort on the same graph return the
\* same result.
C9_SortDeterministic ==
    (sortRes1 # Unsorted /\ sortRes2 # Unsorted) => sortRes1 = sortRes2

\* The dependency relation among the tasks of g contains a cycle: some
\* non-empty set of tasks in which every task depends on a task of the set.
HasCycle(g) ==
    \E C \in (SUBSET TaskNames(g)) \ {{}} :
        \A t \in C : \E i \in 1..Len(g.tasks[t].deps) : g.tasks[t].deps[i] \in C

\* Every depends_on entry of g names a task of g.
DepsExist(g) ==
    \A t \in TaskNames(g) : Range(g.tasks[t].deps) \subseteq TaskNames(g)

CycleError == "cycle detected in DAG"

\* C23: TopologicalSort returns the cycle error whenever the dependency
\* relation among the tasks contains a cycle (a self-dependency included),
\* and never for an acyclic graph whose dependencies all exist; Validate,
\* on a graph whose dependencies all exist, returns the cycle error exactly
\* when there is a cycle.
C23_CycleErrorIffCycle ==
    /\ sortRes1 # Unsorted =>
          /\ HasCycle(sortG) => sortRes1.err = CycleError
          /\ (~HasCycle(sortG) /\ DepsExist(sortG)) => sortRes1.err = ""
    /\ (sortValid # "unchecked" /\ DepsExist(sortG)) =>
          (sortValid = CycleError <=> HasCycle(sortG))

\* C23 witness: a graph of three tasks, one of them outside the cycle that
\* the other two form, rejected by Validate and by TopologicalSort.
C23_Witness ==
    /\ sortRes1 # Unsorted
    /\ sortValid = CycleError
    /\ sortRes1.err = CycleError
    /\ Cardinality(TaskNames(sortG)) = 3
    /\ \E t \in TaskNames(sortG) : sortG.tasks[t].deps = <<>>
    /\ \A t \in TaskNames(sortG) : t \notin Range(sortG.tasks[t].deps)

\* C23 witness of the acyclic side: a task with two dependencies, one of
\* which depends on the other, sorted without error.
C23_WitnessAcyclic ==
    /\ sortRes1 # Unsorted
    /\ sortRes1.err = ""
    /\ \E t \in TaskNames(sortG) : Cardinality(Range(sortG.tasks[t].deps)) = 2

\* The conditions under which a graph is well formed, one by one.
NameGiven(g) == g.name # ""
HasTasks(g) == TaskNames(g) # {}
TaskNamesWellFormed(g) == \A t \in TaskNames(g) : t \in NameSet
CommandsGiven(g) == \A t \in TaskNames(g) : g.tasks[t].cmd # ""

\* C22: Validate accepts a graph exactly when the workflow name is
\* non-empty, there is a task, every task name matches the pattern, every
\* task has a command, every dependency names a task of the graph and the
\* dependency relation is acyclic; the error it returns otherwise names a
\* condition that the graph violates.
C22_ValidateAcceptsIffWellFormed ==
    sortValid # "unchecked" =>
        /\ sortValid = "" <=>
              /\ NameGiven(sortG)
              /\ HasTasks(sortG)
              /\ TaskNamesWellFormed(sortG)
              /\ CommandsGiven(sortG)
              /\ DepsExist(sortG)
              /\ ~HasCycle(sortG)
        /\ sortValid = "workflow name is required" => ~NameGiven(sortG)
        /\ sortValid = "no tasks defined" => ~HasTasks(sortG)
        /\ sortValid = "invalid task name" => ~TaskNamesWellFormed(sortG)
        /\ sortValid = "task has no command defined" => ~CommandsGiven(sortG)
        /\ sortValid = "task depends on missing task" => ~DepsExist(sortG)
        /\ sortValid = CycleError => HasCycle(sortG)

\* C22 witness: a graph that violates two conditions at once (a task
\* without a command and a dependency on a missing task) is rejected, and
\* so is, in another state, a graph whose only fault is a cycle.
C22_Witness ==
    /\ sortValid \notin {"unchecked", ""}
    /\ NameGiven(sortG)
    /\ TaskNamesWellFormed(sortG)
    /\ ~CommandsGiven(sortG)
    /\ ~DepsExist(sortG)
    /\ Cardinality(TaskNames(sortG)) = 2

\* C22 witness of acceptance: a well-formed graph of two tasks, accepted.
C22_WitnessAccepted ==
    /\ sortValid = ""
    /\ NameGiven(sortG)
    /\ Cardinality(TaskNames(sortG)) = 2
    /\ \E t \in TaskNames(sortG) : sortG.tasks[t].deps # <<>>

\* One list is a permutation of the other.
IsPermutation(x, y) ==
    /\ Len(x) = Len(y)
    /\ \A n \in Range(x) \cup Range(y) : Count(x, n) = Count(y, n)
SameUpToOrder(g, h) ==
    /\ SameContent(g, h)
    /\ \A t \in TaskNames(g) : IsPermutation(g.tasks[t].deps, h.tasks[t].deps)

\* C25 as stated: two graphs with the same workflow name and the same
\* tasks (name, command, retries, depends_on lists equal as sets) have the
\* same hash, and a second call on one graph returns the same value.
C25_HashOfSetEqualGraphs ==
    /\ hashRes.again # Unhashed => hashRes.again = hashRes.first
    /\ (hashRes.first # Unhashed /\ hashRes.other # Unhashed) =>
          hashRes.other = hashRes.first

\* C25 amended: two graphs with the same workflow name and the same tasks
\* (name, command, retries, each depends_on list a permutation of the
\* other) have the same hash whatever the map iteration order, and a
\* second call on one graph returns the same value.
C25_HashInvariantUnderPermutation ==
    /\ hashRes.again # Unhashed => hashRes.again = hashRes.first
    /\ (hashRes.first # Unhashed /\ hashRes.other # Unhashed
            /\ SameUpToOrder(sortG, hashG)) =>
          hashRes.other = hashRes.first

\* C25 witness: two graphs of two tasks that differ in the order of a
\* two-entry depends_on list, both hashed, the first one twice.
C25_Witness ==
    /\ hashRes.first # Unhashed
    /\ hashRes.again # Unhashed
    /\ hashRes.other # Unhashed
    /\ Cardinality(TaskNames(sortG)) = 2
    /\ SameUpToOrder(sortG, hashG)
    /\ \E t \in TaskNames(sortG) :
         /\ sortG.tasks[t].deps # hashG.tasks[t].deps
         /\ Cardinality(Range(sortG.tasks[t].deps)) = 2

\* ------------------------------------------------------------------------
\* Properties of the executor (checked under Spec)
\* ------------------------------------------------------------------------
HasSuccessRow(runID, t) ==
    \E i \in 1..Len(taskRuns) :
        /\ taskRuns[i].run = runID
        /\ taskRuns[i].name = t
        /\ taskRuns[i].status = "success"

RowsOf(runID, t) ==
    {i \in 1..Len(taskRuns) : taskRuns[i].run = runID /\ taskRuns[i].name = t}

AttemptsOf(t) == SelectSeq(execLog, LAMBDA e : e.task = t)

\* The tasks the current call has attempted, each once, in first-attempt order.
RECURSIVE Distinct(_)
Distinct(s) ==
    IF s = <<>> THEN <<>>
    ELSE LET r == Distinct(SubSeq(s, 1, Len(s) - 1))
         IN IF Last(s) \in Range(r) THEN r ELSE Append(r, Last(s))
Executed == Distinct([i \in 1..Len(execLog) |-> execLog[i].task])

PositionIn(ord, t) == CHOOSE i \in 1..Len(ord) : ord[i] = t

\* The call has returned after loading its graph.
Returned == pc = "done" /\ d # NoGraph

\* The last completed attempt failed and was the last one allowed.
FinalAttemptFailed ==
    /\ execLog # <<>>
    /\ ~Last(execLog).ok
    /\ Last(execLog).attempt = d.tasks[Last(execLog).task].retries + 1

\* C1: while the command of a task runs, every task of its depends_on has a
\* row of the same run with status success.
C1_SpawnAfterDependenciesSucceeded ==
    pc = "child" =>
        \A dep \in Range(d.tasks[order[idx]].deps) : HasSuccessRow(wr.id, dep)

\* C2: when Run or Resume has returned, the run row is success if and only
\* if every task of the graph has a success row of that run, and failed
\* otherwise.
C2_RunSuccessIffAllTasksSucceeded ==
    Returned =>
        LET all == \A t \in TaskNames(d) : HasSuccessRow(wr.id, t)
        IN /\ runs[wr.id].status = "success" <=> all
           /\ ~all => runs[wr.id].status = "failed"

\* C3: when a task fails on its last allowed attempt the call has returned
\* a task-failed error naming the task and the workflow, the task row and
\* the run row are failed, the run row has an end timestamp, and no task
\* later in the order was attempted or got a row in this call.
C3_FailFast ==
    FinalAttemptFailed =>
        LET t == Last(execLog).task
        IN /\ pc = "done"
           /\ ret = [kind |-> "task_failed", task |-> t, workflow |-> d.name]
           /\ \A i \in RowsOf(wr.id, t) : taskRuns[i].status = "failed"
           /\ RowsOf(wr.id, t) # {}
           /\ runs[wr.id].status = "failed"
           /\ runs[wr.id].ended
           /\ \A j \in (PositionIn(order, t) + 1)..Len(order) :
                /\ AttemptsOf(order[j]) = <<>>
                /\ order[j] \notin created

\* C3 witness: Run has returned from the failure of the first of two tasks.
C3_Witness ==
    /\ FinalAttemptFailed
    /\ mode = "run"
    /\ Last(execLog).started
    /\ PositionIn(order, Last(execLog).task) < Len(order)

\* C4: during Resume a row of the run that has status success is not
\* changed and no command is spawned for its task.
C4_ResumeLeavesSuccessfulTasks ==
    [][(mode = "resume" /\ pc \in {"loop", "attempt", "child"}) =>
          \A i \in 1..Len(taskRuns) :
              (taskRuns[i].run = wr.id /\ taskRuns[i].status = "success") =>
                  /\ taskRuns'[i] = taskRuns[i]
                  /\ ~(pc' = "child" /\ order[idx'] = taskRuns[i].name)]_vars

\* C4 witness: a Resume that skipped a successful task, ran another task
\* and returned nil.
C4_Witness ==
    /\ mode = "resume"
    /\ pc = "done"
    /\ ret.kind = "ok"
    /\ skips # {}
    /\ execLog # <<>>

\* C5: a Resume that returns nil has attempted, in topological order of the
\* loaded graph, exactly the tasks it did not skip as successful, and the
\* run row is success.
C5_ResumeReexecutesUnfinishedTasks ==
    (mode = "resume" /\ Returned /\ ret.kind = "ok") =>
        /\ Executed = SelectSeq(order, LAMBDA t : t \notin skips)
        /\ runs[wr.id].status = "success"

\* C6: a task with retries = N >= 0 is marked failed after exactly N+1
\* failed attempts numbered 1..N+1, its row ends with attempts = N+1, and
\* no task is attempted more than N+1 times in one call.
C6_ExactlyRetriesPlusOneAttempts ==
    /\ (pc = "done" /\ ret.kind = "task_failed") =>
          LET t == ret.task
              n == d.tasks[t].retries
              mine == AttemptsOf(t)
          IN /\ n >= 0
             /\ Len(mine) = n + 1
             /\ \A k \in 1..Len(mine) : mine[k].attempt = k /\ ~mine[k].ok
             /\ \A i \in RowsOf(wr.id, t) :
                    taskRuns[i].status = "failed" /\ taskRuns[i].attempts = n + 1
    /\ d # NoGraph =>
          \A t \in TaskNames(d) :
              d.tasks[t].retries >= 0 => Len(AttemptsOf(t)) <= d.tasks[t].retries + 1

\* C6 witness: a task with retries >= 1 whose every attempt ran a process
\* and failed.
C6_Witness ==
    /\ pc = "done"
    /\ ret.kind = "task_failed"
    /\ d.tasks[ret.task].retries >= 1
    /\ \A k \in 1..Len(execLog) : execLog[k].task = ret.task => execLog[k].started

\* C10: a call during which the context killed a running child returns the
\* cancellation error.
C10_CancellationIsDistinctError ==
    (pc = "done" /\ killed) => ret.kind = "cancelled"

\* The call returned the cancellation error, or an attempt of it was cut
\* short by the cancellation.
ReturnedOnCancel == pc = "done" /\ (ret.kind = "cancelled" \/ killed)

\* C11: when Run or Resume has returned because of cancellation, the run
\* row is stored with status failed and an end timestamp.
C11_CancelledRunPersistedFailed ==
    ReturnedOnCancel => runs[wr.id].status = "failed" /\ runs[wr.id].ended

\* C11 witness: Run returned the cancellation error after its first task.
C11_Witness ==
    /\ mode = "run"
    /\ pc = "done"
    /\ ret.kind = "cancelled"
    /\ execLog # <<>>

\* C12: when the context is cancelled before the first task of Run, the
\* next step of Run stores the run row as failed, inserts no task row,
\* starts no process and returns the cancellation error.
C12_CancelBeforeFirstTask ==
    [][(mode = "run" /\ pc = "loop" /\ idx = 1 /\ cancelled) =>
          /\ pc' = "done"
          /\ ret'.kind = "cancelled"
          /\ runs'[wr.id].status = "failed"
          /\ runs'[wr.id].ended
          /\ taskRuns' = taskRuns
          /\ spawned' = spawned
          /\ execLog' = <<>>]_vars

\* C12 witness: Run returned on a cancellation that preceded its first task.
C12_Witness ==
    /\ mode = "run"
    /\ pc = "done"
    /\ ret.kind = "cancelled"
    /\ idx = 1
    /\ created = {}
    /\ RowsOf(wr.id, order[1]) = {}
    /\ spawned[wr.id] = 0

\* C13: when Run or Resume has returned, no process of a group the call
\* created is alive.
C13_NoOrphanChildren == pc = "done" => group = {}

\* C14: an attempt that completes while the database rejects statements
\* ends the call with the persistence error.
C14_StoreFailureNotSwallowed ==
    [][(storeDown /\ Len(execLog') > Len(execLog)) =>
          (pc' = "done" /\ ret'.kind = "store_error")]_vars

\* A step that is a resume call on the stored run wr'.id.
ResumesRun == calls' = calls + 1 /\ mode' = "resume" /\ wr' # NilRun

\* C15: resume of a run whose stored status is not failed returns the
\* not-resumable error, starts no process and leaves the store as it was.
C15_ResumeRefusesUnlessFailed ==
    [][(ResumesRun /\ runs[wr'.id].status # "failed") =>
          /\ pc' = "done"
          /\ ret'.kind = "not_resumable"
          /\ storeVars' = storeVars
          /\ spawned' = spawned]_vars

\* C15 witness: resume refused a run left at status running.
C15_Witness ==
    /\ mode = "resume"
    /\ pc = "done"
    /\ ret.kind = "not_resumable"
    /\ runs[wr.id].status = "running"

\* C16: a run row with status success is never changed again, no task row
\* of it is changed or added and no process is started for it; resume of a
\* run with status failed is not refused as not resumable.
C16_SuccessIsTerminal ==
    [][/\ \A id \in 1..Len(runs) :
            runs[id].status = "success" =>
                /\ runs'[id] = runs[id]
                /\ LoadTaskRuns(taskRuns', id) = LoadTaskRuns(taskRuns, id)
                /\ spawned'[id] = spawned[id]
       /\ (ResumesRun /\ runs[wr'.id].status = "failed") =>
              ret'.kind # "not_resumable"]_vars

\* C16 witness: after a run ended success, a second Run of the workflow
\* executed tasks and returned.
C16_Witness ==
    /\ Len(runs) = 2
    /\ runs[1].status = "success"
    /\ mode = "run"
    /\ pc = "done"
    /\ execLog # <<>>

\* C17: no two task rows have the same run id and task name.
C17_OneRowPerRunAndTask ==
    \A i, j \in 1..Len(taskRuns) :
        (taskRuns[i].run = taskRuns[j].run /\ taskRuns[i].name = taskRuns[j].name)
            => i = j

\* C17 witness: a Resume attempted a task whose row an earlier call had
\* inserted.
C17_Witness ==
    /\ mode = "resume"
    /\ execLog # <<>>
    /\ Last(execLog).task \notin created

\* C18: when Run or Resume has returned with the run ended, by success or
\* by the failure of a task, every task of the graph has exactly one row of
\* the run.
C18_OneRowPerTaskAtCompletion ==
    (Returned /\ ret.kind \in {"ok", "task_failed"}) =>
        \A t \in TaskNames(d) : Cardinality(RowsOf(wr.id, t)) = 1

RECURSIVE SumAttempts(_)
SumAttempts(rows) ==
    IF rows = <<>> THEN 0 ELSE Head(rows).attempts + SumAttempts(Tail(rows))

\* C19: when Run or Resume has returned, the attempts values of the rows
\* of the run add up to the number of processes started for the run.
C19_AttemptsSumEqualsSpawns ==
    Returned => SumAttempts(LoadTaskRuns(taskRuns, wr.id)) = spawned[wr.id]

\* C20: a log file, once written, stays as it was written: no later
\* attempt of the run removes it or writes it again.
C20_LogsNeverOverwritten ==
    [][\A f \in logs : f \in logs']_vars

\* C21: with a non-zero per-task timeout no child runs longer than the
\* timeout: it is killed when the timeout elapses and the attempt is
\* handled as a failed one.
C21_ChildKilledAtTimeout ==
    (pc = "child" /\ timeout > 0) => elapsed <= timeout

\* A step that starts the command run of the command line.
RunCmdStep == calls' = calls + 1 /\ Len(argv') >= 1 /\ argv'[1] = "run"

\* C24: run on a workflow whose graph has a cycle returns the cycle error
\* of the validation in the same step: no run row is created and no
\* process is spawned.
C24_CyclicWorkflowNeverStarts ==
    [][(RunCmdStep /\ HasCycle(file)) =>
        /\ pc' = "done"
        /\ ret'.kind = "load_error"
        /\ out'.error = CycleError
        /\ runs' = runs
        /\ taskRuns' = taskRuns
        /\ spawned' = spawned
        /\ group' = {}]_vars

\* C24 witness: run (without --dry-run) has returned the cycle error for a
\* workflow in which a and b depend on each other, after an earlier call.
C24_Witness ==
    /\ pc = "done"
    /\ argv = <<"run">>
    /\ calls = 2
    /\ ret.kind = "load_error"
    /\ out.error = CycleError
    /\ file # NoGraph
    /\ file.tasks["a"].deps = <<"b">>
    /\ file.tasks["b"].deps = <<"a">>

\* C29 as stated: a command that met a failure (a workflow that does not
\* load or validate, a failed execution, a run that is not found) exits
\* with a non-zero code, in every output mode.
C29_FailureExitsNonZero ==
    (pc = "done" /\ calls > 0 /\ argv # <<>>) =>
        /\ (argv[1] = "validate" /\ ~out.valid) => ExitCode # 0
        /\ ret.kind # "ok" => ExitCode # 0

\* The plan names every task once, after its dependencies, numbered 1..n.
IsPlanOf(plan, g) ==
    LET names == [i \in 1..Len(plan) |-> plan[i].name]
    IN /\ IsPermutationOfTasks(names, g)
       /\ DepsPrecede(names, g)
       /\ \A i \in 1..Len(plan) : plan[i].order = i

LoadedNames(runID) ==
    LET rows == LoadTaskRuns(taskRuns, runID)
    IN [i \in 1..Len(rows) |-> rows[i].name]

\* C26: after a successful Run, LoadTaskRuns returns the task rows in the
\* order that TopologicalSort gives for the graph, whichever call of
\* TopologicalSort the order is taken from.
C26_RowsInTopologicalOrder ==
    (Returned /\ mode = "run" /\ ret.kind = "ok") =>
        \A iter \in MapOrders(TaskNames(d)) :
            LoadedNames(wr.id) = TopologicalSort(d, iter).order

\* ------------------------------------------------------------------------
\* Properties of the run rows (checked under SpecStore)
\* ------------------------------------------------------------------------
\* The rows of the table that pass the filters of a ListRuns call.
MatchingRows(workflow, status) ==
    {tbl[i] : i \in {k \in 1..Len(tbl) :
                        /\ (workflow = "" \/ tbl[k].workflow = workflow)
                        /\ (status = "" \/ tbl[k].status = status)}}

\* res is the window of M, ordered by created_at descending, that skips
\* skip rows and holds at most cap rows.
IsPageOf(res, M, skip, cap) ==
    LET got == Range(res)
    IN /\ got \subseteq M
       /\ Cardinality(got) = Len(res)
       /\ \A i, j \in 1..Len(res) : i < j => res[i].created_at >= res[j].created_at
       /\ Len(res) = Min(cap, Max(0, Cardinality(M) - skip))
       /\ \E before \in SUBSET (M \ got) :
            /\ Cardinality(before) = Min(skip, Cardinality(M))
            /\ \A b \in before, r \in got : b.created_at >= r.created_at
            /\ \A a \in M \ (got \cup before), r \in got \cup before :
                    r.created_at >= a.created_at

\* C27 as stated: ListRuns returns the rows that match every non-empty
\* filter, ordered by created_at descending, without the first offset
\* rows and at most limit rows of them (none for a limit below 0).
C27_ListRunsAtMostLimit ==
    op.name = "list" =>
        IsPageOf(op.res, MatchingRows(op.args[1], op.args[2]),
                 Max(op.args[4], 0), Max(op.args[3], 0))

\* C27 amended: the same, where a limit below 0 means no limit and an
\* offset below 0 means 0.
C27_ListRunsPage ==
    op.name = "list" =>
        LET M == MatchingRows(op.args[1], op.args[2])
        IN IsPageOf(op.res, M, Max(op.args[4], 0),
                    IF op.args[3] < 0 THEN Cardinality(M) ELSE op.args[3])

\* C27 witness: of two rows of workflow wf created at different ticks,
\* ListRuns("wf", "", 1, 1) has returned the older one.
C27_Witness ==
    /\ op.name = "list"
    /\ op.args = <<"wf", "", 1, 1>>
    /\ Len(tbl) = 2
    /\ tbl[1].created_at < tbl[2].created_at
    /\ op.res = <<tbl[1]>>

\* Two optional values are both NULL, or both set to the same value.
SameOptional(x, y) == x.valid = y.valid /\ (x.valid => x.v = y.v)

\* C28: the row loaded by id after NewWorkflowRun or Update equals the
\* row that was written in every attribute, an optional attribute being
\* NULL exactly when it was written as NULL; the row NewWorkflowRun
\* returns has status running and the workflow name and hash it was given.
C28_RunRowRoundTrip ==
    /\ op.name = "load" =>
          LET r == op.res[1]
              w == op.row
          IN /\ r.id = w.id
             /\ r.workflow = w.workflow
             /\ r.workflow_hash = w.workflow_hash
             /\ r.status = w.status
             /\ r.started_at = w.started_at
             /\ r.created_at = w.created_at
             /\ SameOptional(r.ended_at, w.ended_at)
             /\ SameOptional(r.exit_code, w.exit_code)
             /\ SameOptional(r.meta, w.meta)
    /\ op.name = "new" =>
          /\ op.row.status = "running"
          /\ op.row.workflow = op.args[1]
          /\ op.row.workflow_hash = op.args[2]
          /\ LoadWorkflowRun(tbl, op.row.id).status = "running"
          /\ ~LoadWorkflowRun(tbl, op.row.id).ended_at.valid

\* C28 witness: the second row of the table has been loaded after an
\* Update that set ended_at, exit_code and meta.
C28_Witness ==
    /\ op.name = "load"
    /\ Len(tbl) = 2
    /\ op.row.id = 2
    /\ op.row.ended_at.valid
    /\ op.row.exit_code.valid
    /\ op.row.meta.valid

\* C28 witness of the NULL side: a row loaded after an Update that wrote
\* NULL from a struct with Valid false and a payload left in it.
C28_WitnessNull ==
    /\ op.name = "load"
    /\ ~op.row.exit_code.valid
    /\ op.row.exit_code.v # 0
    /\ op.res[1].exit_code = NullInt

\* ------------------------------------------------------------------------
\* Further properties of the executor
\* ------------------------------------------------------------------------
\* C31: when Executor.Run returns because the graph cannot be sorted, the
\* call has left no run row in the store.
C31_SortErrorBeforeAnyWrite ==
    [][(calls' = calls + 1 /\ mode' = "run" /\ ret'.kind = "sort_error") =>
          runs' = runs]_vars

\* A step in which an attempt of the current task ends with exit code 0.
AttemptSucceeds ==
    /\ Len(execLog') = Len(execLog) + 1
    /\ Last(execLog').ok

\* C32: when an attempt exits with code 0 the task row is persisted with
\* status success, ended_at set, exit_code 0 and attempts the number of
\* that attempt, and the executor goes on to the next task; a row that
\* has status success is never written again, so no attempt follows.
C32_SuccessEndsTheTask ==
    [][/\ AttemptSucceeds =>
            /\ \E i \in 1..Len(taskRuns') :
                  /\ taskRuns'[i].run = wr.id
                  /\ taskRuns'[i].name = order[idx]
                  /\ taskRuns'[i].status = "success"
                  /\ taskRuns'[i].ended
                  /\ taskRuns'[i].exitCode = [valid |-> TRUE, int64 |-> 0]
                  /\ taskRuns'[i].attempts = Last(execLog').attempt
            /\ pc' = "loop"
            /\ idx' = idx + 1
       /\ \A i \in 1..Len(taskRuns) :
            taskRuns[i].status = "success" => taskRuns'[i] = taskRuns[i]
       /\ \A i, j \in 1..Len(execLog') :
            (i < j /\ execLog'[i].ok) => execLog'[j].task # execLog'[i].task]_vars

\* C32 witness: task a, which may be retried, has succeeded at its first
\* attempt and the executor has gone on to attempt another task.
C32_Witness ==
    /\ d # NoGraph
    /\ d.tasks["a"].retries >= 1
    /\ Len(execLog) = 2
    /\ execLog[1] = [task |-> "a", attempt |-> 1, started |-> TRUE, ok |-> TRUE]
    /\ execLog[2].task = "b"
    /\ \E i \in 1..Len(taskRuns) :
         /\ taskRuns[i].run = wr.id
         /\ taskRuns[i].name = "a"
         /\ taskRuns[i].status = "success"
         /\ taskRuns[i].attempts = 1

C34_AttemptsInOrder ==
    [][/\ \A i \in 1..Len(taskRuns) :
            taskRuns'[i].attempts \in
                {taskRuns[i].attempts, taskRuns[i].attempts + 1}
       /\ (pc = "attempt" /\ pc' = "child" /\ attempt > 1) =>
            /\ \E f \in logs : f.path = LogPath(wr.id, order[idx], attempt - 1)
            /\ \E i \in 1..Len(taskRuns) :
                 /\ taskRuns[i].id = tr.id
                 /\ taskRuns[i].attempts = attempt - 1]_vars

\* C35: in every stored task row log_path is empty while attempts = 0 and
\* is otherwise the log file of the row's run, task and attempts value.
C35_LogPathNamesLatestAttempt ==
    \A i \in 1..Len(taskRuns) :
        IF taskRuns[i].attempts = 0
        THEN taskRuns[i].logPath = NilTaskRun.logPath
        ELSE taskRuns[i].logPath =
                 <<taskRuns[i].run, taskRuns[i].name, taskRuns[i].attempts>>

\* C35 witness: one row after its second attempt next to a row that has
\* not been attempted yet.
C35_Witness ==
    \E i, j \in 1..Len(taskRuns) :
        /\ taskRuns[i].attempts = 2
        /\ taskRuns[i].logPath = <<taskRuns[i].run, taskRuns[i].name, 2>>
        /\ taskRuns[j].attempts = 0
        /\ taskRuns[j].logPath = NilTaskRun.logPath
        /\ taskRuns[j].run = taskRuns[i].run

\* C36: once ctx is cancelled, the call in progress inserts no task row;
\* what it still spawns or logs belongs to the task it was at, and from the
\* head of the task loop it only skips completed tasks or returns.
C36_NoLaterTaskAfterCancel ==
    [][(cancelled /\ pc \in {"loop", "attempt", "child"}) =>
          /\ Len(taskRuns') = Len(taskRuns)
          /\ created' = created
          /\ pc = "loop" =>
                /\ spawned' = spawned
                /\ execLog' = execLog
                /\ pc' \in {"loop", "done"}
                /\ pc' = "loop" => skips' = skips \cup {order[idx]}
          /\ pc # "loop" =>
                /\ \A i \in Len(execLog) + 1..Len(execLog') :
                     execLog'[i].task = order[idx]
                /\ idx' = idx \/ (idx' = idx + 1 /\ pc' = "loop")]_vars

\* C36 witness: the child of the first of two tasks was killed on
\* cancellation and the call returned with a row for that task only.
C36_Witness ==
    /\ pc = "done"
    /\ cancelled
    /\ killed
    /\ Len(order) = 2
    /\ idx = 1
    /\ created = {order[1]}
    /\ \A i \in 1..Len(execLog) : execLog[i].task = order[1]

\* C37: after the child of an attempt was killed on cancellation, the task
\* gets no further attempt: no attempt is logged, no log file is written
\* and no row's attempts counter changes.
C37_NoAttemptAfterCancel ==
    [][(killed /\ cancelled /\ pc = "attempt") =>
          /\ execLog' = execLog
          /\ logs' = logs
          /\ \A i \in 1..Len(taskRuns) :
               taskRuns'[i].attempts = taskRuns[i].attempts]_vars

\* C38: when a call that drove a run has returned, the stored status of
\* that run is success or failed.
C38_ReturnLeavesRunFinished ==
    (/\ pc = "done"
     /\ ret.kind \in {"ok", "task_failed", "cancelled", "store_error"}
     /\ wr.id \in DOMAIN runs) =>
        runs[wr.id].status \in {"success", "failed"}

\* C39: while Run or Resume is executing, the stored status of its run is
\* running, and during an attempt the stored status of the task's row is
\* running.
C39_RunningWhileDriven ==
    /\ pc \in {"loop", "attempt", "child"} => runs[wr.id].status = "running"
    /\ pc \in {"attempt", "child"} =>
          \A i \in 1..Len(taskRuns) :
              taskRuns[i].id = tr.id => taskRuns[i].status = "running"

\* C40: a task row with attempts = 0 and status running belongs to the
\* task whose first attempt is about to run or running: the call has not
\* moved on to another task, returned, or stored the run as success.
C40_EveryReachedTaskAttempted ==
    \A i \in 1..Len(taskRuns) :
        (taskRuns[i].attempts = 0 /\ taskRuns[i].status = "running") =>
            /\ taskRuns[i].run = wr.id
            /\ runs[wr.id].status = "running"
            /\ pc \in {"attempt", "child"}
            /\ order[idx] = taskRuns[i].name

====
